---------------------------- MODULE Spec2Model ----------------------------
(***************************************************************************)
(* Model of the github-proxy URL codec: the Resource model, the parser     *)
(* Resource::try_from, the renderer Resource::url and the proxy registry   *)
(* Proxy::from_str.                                                         *)
(*                                                                         *)
(* Strings are sequences of one-character strings, so that the regexes,    *)
(* trim, split('/'), join("/") and to_lowercase are computed character by  *)
(* character as the code computes them.                                    *)
(***************************************************************************)
EXTENDS Integers, Sequences, FiniteSets, TLC

(***************************************************************************)
(* Bounds of the model.                                                    *)
(***************************************************************************)
\* Most '/'-separated segments after the shape marker of a generated URL.
MaxTail == 4
\* Most '/'-separated segments of the path (or name) argument of a constructor.
MaxPathSegs == 3
\* Most letters of a proxy identifier written in upper case.
MaxUpper == 2

(***************************************************************************)
(* String helpers (std::str).                                              *)
(***************************************************************************)
Drop(s, n) == SubSeq(s, n + 1, Len(s))

Take(s, n) == SubSeq(s, 1, n)

\* str::starts_with
StartsWith(s, p) == Len(s) >= Len(p) /\ Take(s, Len(p)) = p

\* char::is_whitespace, on the characters the model draws from
IsWhitespace(c) == c \in {" ", "\t", "\n"}

\* str::trim: strips leading and trailing whitespace
RECURSIVE TrimStart(_)
TrimStart(s) ==
    IF s # <<>> /\ IsWhitespace(Head(s)) THEN TrimStart(Tail(s)) ELSE s

RECURSIVE TrimEnd(_)
TrimEnd(s) ==
    IF s # <<>> /\ IsWhitespace(s[Len(s)]) THEN TrimEnd(Take(s, Len(s) - 1)) ELSE s

Trim(s) == TrimEnd(TrimStart(s))

\* str::split('/'): always at least one part; "" splits to [""]
RECURSIVE SplitAcc(_, _, _)
SplitAcc(s, cur, acc) ==
    IF s = <<>> THEN Append(acc, cur)
    ELSE IF Head(s) = "/" THEN SplitAcc(Tail(s), <<>>, Append(acc, cur))
    ELSE SplitAcc(Tail(s), Append(cur, Head(s)), acc)

Split(s) == SplitAcc(s, <<>>, <<>>)

\* [&str]::join("/")
RECURSIVE Join(_)
Join(parts) ==
    IF parts = <<>> THEN <<>>
    ELSE IF Len(parts) = 1 THEN parts[1]
    ELSE parts[1] \o <<"/">> \o Join(Tail(parts))

\* str::to_lowercase, on ASCII
UPPER == <<"A", "B", "C", "D", "E", "F", "G", "H", "I", "J", "K", "L", "M",
           "N", "O", "P", "Q", "R", "S", "T", "U", "V", "W", "X", "Y", "Z">>

LOWER == <<"a", "b", "c", "d", "e", "f", "g", "h", "i", "j", "k", "l", "m",
           "n", "o", "p", "q", "r", "s", "t", "u", "v", "w", "x", "y", "z">>

ToLowerChar(c) ==
    IF \E i \in 1..Len(UPPER) : UPPER[i] = c
    THEN LOWER[CHOOSE i \in 1..Len(UPPER) : UPPER[i] = c]
    ELSE c

ToUpperChar(c) ==
    IF \E i \in 1..Len(LOWER) : LOWER[i] = c
    THEN UPPER[CHOOSE i \in 1..Len(LOWER) : LOWER[i] = c]
    ELSE c

to_lowercase(s) == [i \in 1..Len(s) |-> ToLowerChar(s[i])]

(***************************************************************************)
(* Regex matching (regex::Regex::captures).  A pattern is a sequence of    *)
(* atoms, anchored at both ends (^ ... $):                                 *)
(*   lit  : a literal string                                               *)
(*   opt  : an optional literal (x?)                                       *)
(*   plus : a named group of one or more characters of a class, greedy     *)
(*          with backtracking; class "notslash" is [^/], class "dot" is .  *)
(*          (any character but a line feed)                                *)
(***************************************************************************)
Lit(s) == [t |-> "lit", s |-> s, name |-> "", cls |-> ""]

Opt(s) == [t |-> "opt", s |-> s, name |-> "", cls |-> ""]

Plus(name, cls) == [t |-> "plus", s |-> <<>>, name |-> name, cls |-> cls]

InClass(c, cls) == IF cls = "notslash" THEN c # "/" ELSE c # "\n"

NoCaptures ==
    [matched |-> FALSE, owner |-> <<>>, repo |-> <<>>, rest |-> <<>>,
     tag |-> <<>>, filename |-> <<>>]

\* Number of leading characters of s in class cls
RECURSIVE Run(_, _)
Run(s, cls) ==
    IF s # <<>> /\ InClass(Head(s), cls) THEN 1 + Run(Tail(s), cls) ELSE 0

RECURSIVE Match(_, _, _)
Match(pat, s, caps) ==
    IF pat = <<>>
    THEN IF s = <<>> THEN [caps EXCEPT !.matched = TRUE] ELSE NoCaptures
    ELSE LET a == Head(pat)
             more == Tail(pat)
         IN  CASE a.t = "lit" ->
                    IF StartsWith(s, a.s)
                    THEN Match(more, Drop(s, Len(a.s)), caps)
                    ELSE NoCaptures
               [] a.t = "opt" ->
                    LET with == IF StartsWith(s, a.s)
                                THEN Match(more, Drop(s, Len(a.s)), caps)
                                ELSE NoCaptures
                    IN  IF with.matched THEN with ELSE Match(more, s, caps)
               [] a.t = "plus" ->
                    LET n == Run(s, a.cls)
                        ks == {k \in 1..n :
                                 Match(more, Drop(s, k), caps).matched}
                    IN  IF ks = {} THEN NoCaptures
                        ELSE LET k == CHOOSE x \in ks : \A y \in ks : y <= x
                             IN  Match(more, Drop(s, k),
                                       [caps EXCEPT ![a.name] = Take(s, k)])

HTTP == <<"h", "t", "t", "p">>

GITHUB == <<":", "/", "/", "g", "i", "t", "h", "u", "b">>

COM == <<"c", "o", "m", "/">>

RAW_SEG == <<"/", "r", "a", "w", "/">>

BLOB_SEG == <<"/", "b", "l", "o", "b", "/">>

REL_SEG == <<"/", "r", "e", "l", "e", "a", "s", "e", "s", "/",
             "d", "o", "w", "n", "l", "o", "a", "d", "/">>

\* ^https?://github\.com/(?P<owner>[^/]+)/(?P<repo>[^/]+)
HeadPattern ==
    <<Lit(HTTP), Opt(<<"s">>), Lit(GITHUB), Lit(<<".">>), Lit(COM),
      Plus("owner", "notslash"), Lit(<<"/">>), Plus("repo", "notslash")>>

\* ^https?://github\.com/(?P<owner>[^/]+)/(?P<repo>[^/]+)/raw/(?P<rest>.+)$
raw_file_regex(value) ==
    Match(HeadPattern \o <<Lit(RAW_SEG), Plus("rest", "dot")>>, value, NoCaptures)

\* ^https?://github\.com/(?P<owner>[^/]+)/(?P<repo>[^/]+)/blob/(?P<rest>.+)$
blob_file_regex(value) ==
    Match(HeadPattern \o <<Lit(BLOB_SEG), Plus("rest", "dot")>>, value, NoCaptures)

\* ^https?://github\.com/(?P<owner>[^/]+)/(?P<repo>[^/]+)/releases/download/(?P<tag>[^/]+)/(?P<filename>.+)$
release_download_regex(value) ==
    Match(HeadPattern \o <<Lit(REL_SEG), Plus("tag", "notslash"), Lit(<<"/">>),
                           Plus("filename", "dot")>>, value, NoCaptures)


(***************************************************************************)
(* The Resource model and ConversionError.                                 *)
(***************************************************************************)
\* Resource::file
File(owner, repo, reference, path) ==
    [kind |-> "File", owner |-> owner, repo |-> repo,
     reference |-> reference, path |-> path]

\* Resource::release
Release(owner, repo, tag, name) ==
    [kind |-> "Release", owner |-> owner, repo |-> repo,
     tag |-> tag, name |-> name]

NoResource == [kind |-> "None"]

\* Result<_, ConversionError>: InvalidUrl carries the url, ParseError and the
\* others a message
Ok(v) == [ok |-> TRUE, val |-> v, err |-> "", url |-> <<>>, msg |-> ""]

InvalidUrl(url) ==
    [ok |-> FALSE, val |-> NoResource, err |-> "InvalidUrl", url |-> url, msg |-> ""]

ParseError(msg) ==
    [ok |-> FALSE, val |-> NoResource, err |-> "ParseError", url |-> <<>>, msg |-> msg]

NoResult == [ok |-> FALSE, val |-> NoResource, err |-> "None", url |-> <<>>, msg |-> ""]

(***************************************************************************)
(* split_reference_and_path                                                *)
(***************************************************************************)
REFS == <<"r", "e", "f", "s">>

SplitOk(reference, path) ==
    [ok |-> TRUE, reference |-> reference, path |-> path, msg |-> ""]

SplitErr(msg) == [ok |-> FALSE, reference |-> <<>>, path |-> <<>>, msg |-> msg]

\* split_reference_and_path without the refs/ branch
split_reference_and_path_no_refs(rest) ==
    LET parts == Split(rest)
    IN  IF Len(parts) = 0
        THEN SplitErr("Missing reference and path")
        ELSE IF Len(parts) >= 2
        THEN SplitOk(parts[1], Join(SubSeq(parts, 2, Len(parts))))
        ELSE SplitErr("Invalid reference/path format")

\* split_reference_and_path with the refs/ branch taken from 3 segments on
split_reference_and_path_refs3(rest) ==
    LET parts == Split(rest)
    IN  IF Len(parts) = 0
        THEN SplitErr("Missing reference and path")
        ELSE IF Len(parts) >= 3 /\ parts[1] = REFS
        THEN LET reference == parts[1] \o <<"/">> \o parts[2] \o <<"/">> \o parts[3]
                 path == Join(SubSeq(parts, 4, Len(parts)))
             IN  IF path = <<>>
                 THEN SplitErr("Missing file path")
                 ELSE SplitOk(reference, path)
        ELSE IF Len(parts) >= 2
        THEN SplitOk(parts[1], Join(SubSeq(parts, 2, Len(parts))))
        ELSE SplitErr("Invalid reference/path format")

\* split_reference_and_path keeping only the first segment of the path
split_reference_and_path_first_segment(rest) ==
    LET parts == Split(rest)
    IN  IF Len(parts) = 0
        THEN SplitErr("Missing reference and path")
        ELSE IF Len(parts) >= 4 /\ parts[1] = REFS
        THEN LET reference == parts[1] \o <<"/">> \o parts[2] \o <<"/">> \o parts[3]
                 path == parts[4]
             IN  IF path = <<>>
                 THEN SplitErr("Missing file path")
                 ELSE SplitOk(reference, path)
        ELSE IF Len(parts) >= 2
        THEN SplitOk(parts[1], parts[2])
        ELSE SplitErr("Invalid reference/path format")

split_reference_and_path(rest) ==
    LET parts == Split(rest)
    IN  IF Len(parts) = 0
        THEN SplitErr("Missing reference and path")
        ELSE IF Len(parts) >= 4 /\ parts[1] = REFS
        THEN LET reference == parts[1] \o <<"/">> \o parts[2] \o <<"/">> \o parts[3]
                 path == Join(SubSeq(parts, 4, Len(parts)))
             IN  IF path = <<>>
                 THEN SplitErr("Missing file path")
                 ELSE SplitOk(reference, path)
        ELSE IF Len(parts) >= 2
        THEN SplitOk(parts[1], Join(SubSeq(parts, 2, Len(parts))))
        ELSE SplitErr("Invalid reference/path format")

(***************************************************************************)
(* Resource::try_from                                                      *)
(***************************************************************************)
\* The body shared by the raw and the blob branch
FileFromCaptures(captures) ==
    LET sp == split_reference_and_path(captures.rest)
    IN  IF sp.ok
        THEN Ok(File(captures.owner, captures.repo, sp.reference, sp.path))
        ELSE ParseError(sp.msg)

\* try_from without the trim
try_from_no_trim(input) ==
    LET value == input
        raw == raw_file_regex(value)
        blob == blob_file_regex(value)
        rel == release_download_regex(value)
    IN  IF raw.matched THEN FileFromCaptures(raw)
        ELSE IF blob.matched THEN FileFromCaptures(blob)
        ELSE IF rel.matched
        THEN Ok(Release(rel.owner, rel.repo, rel.tag, rel.filename))
        ELSE InvalidUrl(value)

\* try_from that goes on to the next shape when the reference/path split of a
\* matched File shape fails (if let Ok(..) in place of ?)
try_from_fall_through(input) ==
    LET value == Trim(input)
        raw == raw_file_regex(value)
        blob == blob_file_regex(value)
        rel == release_download_regex(value)
    IN  IF raw.matched /\ FileFromCaptures(raw).ok THEN FileFromCaptures(raw)
        ELSE IF blob.matched /\ FileFromCaptures(blob).ok THEN FileFromCaptures(blob)
        ELSE IF rel.matched
        THEN Ok(Release(rel.owner, rel.repo, rel.tag, rel.filename))
        ELSE InvalidUrl(value)

try_from(input) ==
    LET value == Trim(input)
        raw == raw_file_regex(value)
        blob == blob_file_regex(value)
        rel == release_download_regex(value)
    IN  IF raw.matched THEN FileFromCaptures(raw)
        ELSE IF blob.matched THEN FileFromCaptures(blob)
        ELSE IF rel.matched
        THEN Ok(Release(rel.owner, rel.repo, rel.tag, rel.filename))
        ELSE InvalidUrl(value)

(***************************************************************************)
(* Resource::url                                                           *)
(***************************************************************************)
\* The variants Resource::url matches on (proxy.rs spells the first GitHub and
\* declares no Statically)
Proxy == {"Github", "GhProxy", "Xget", "Jsdelivr", "Statically"}

Some(u) == [some |-> TRUE, url |-> u]

None == [some |-> FALSE, url |-> <<>>]

GITHUB_COM == <<"h", "t", "t", "p", "s", ":", "/", "/",
                "g", "i", "t", "h", "u", "b", ".", "c", "o", "m", "/">>

XGET_GH == <<"h", "t", "t", "p", "s", ":", "/", "/", "x", "g", "e", "t", ".",
             "x", "i", "-", "x", "u", ".", "m", "e", "/", "g", "h", "/">>

GH_PROXY_COM == <<"h", "t", "t", "p", "s", ":", "/", "/",
                  "g", "h", "-", "p", "r", "o", "x", "y", ".", "c", "o", "m", "/">>

JSDELIVR_GH == <<"h", "t", "t", "p", "s", ":", "/", "/", "c", "d", "n", ".",
                 "j", "s", "d", "e", "l", "i", "v", "r", ".", "n", "e", "t", "/",
                 "g", "h", "/">>

STATICALLY_GH == <<"h", "t", "t", "p", "s", ":", "/", "/", "c", "d", "n", ".",
                   "s", "t", "a", "t", "i", "c", "a", "l", "l", "y", ".", "i", "o",
                   "/", "g", "h", "/">>

\* format!("{}/{}/raw/{}/{}", owner, repo, reference, path)
RawTail(r) == r.owner \o <<"/">> \o r.repo \o RAW_SEG \o r.reference \o <<"/">> \o r.path

\* format!("{}/{}/releases/download/{}/{}", owner, repo, tag, name)
ReleaseTail(r) == r.owner \o <<"/">> \o r.repo \o REL_SEG \o r.tag \o <<"/">> \o r.name

\* FileUrl with the jsdelivr arm written like the statically one ('/' for '@')
FileUrl_jsdelivr_slash(r, proxy_type) ==
    CASE proxy_type = "Github" -> GITHUB_COM \o RawTail(r)
      [] proxy_type = "Xget" -> XGET_GH \o RawTail(r)
      [] proxy_type = "GhProxy" -> GH_PROXY_COM \o GITHUB_COM \o RawTail(r)
      [] proxy_type = "Jsdelivr" ->
            JSDELIVR_GH \o r.owner \o <<"/">> \o r.repo \o <<"/">>
                \o r.reference \o <<"/">> \o r.path
      [] proxy_type = "Statically" ->
            STATICALLY_GH \o r.owner \o <<"/">> \o r.repo \o <<"/">>
                \o r.reference \o <<"/">> \o r.path

FileUrl(r, proxy_type) ==
    CASE proxy_type = "Github" -> GITHUB_COM \o RawTail(r)
      [] proxy_type = "Xget" -> XGET_GH \o RawTail(r)
      [] proxy_type = "GhProxy" -> GH_PROXY_COM \o GITHUB_COM \o RawTail(r)
      [] proxy_type = "Jsdelivr" ->
            JSDELIVR_GH \o r.owner \o <<"/">> \o r.repo \o <<"@">>
                \o r.reference \o <<"/">> \o r.path
      [] proxy_type = "Statically" ->
            STATICALLY_GH \o r.owner \o <<"/">> \o r.repo \o <<"/">>
                \o r.reference \o <<"/">> \o r.path

\* ReleaseUrl with the jsdelivr arm given the File template, as ReleaseAsset::url
\* of lib.rs has it
ReleaseUrl_jsdelivr_some(r, proxy_type) ==
    CASE proxy_type = "Github" -> Some(GITHUB_COM \o ReleaseTail(r))
      [] proxy_type = "Xget" -> Some(XGET_GH \o ReleaseTail(r))
      [] proxy_type = "GhProxy" -> Some(GH_PROXY_COM \o GITHUB_COM \o ReleaseTail(r))
      [] proxy_type = "Jsdelivr" ->
            Some(JSDELIVR_GH \o r.owner \o <<"/">> \o r.repo \o <<"@">>
                    \o r.tag \o <<"/">> \o r.name)
      [] proxy_type = "Statically" -> None

ReleaseUrl(r, proxy_type) ==
    CASE proxy_type = "Github" -> Some(GITHUB_COM \o ReleaseTail(r))
      [] proxy_type = "Xget" -> Some(XGET_GH \o ReleaseTail(r))
      [] proxy_type = "GhProxy" -> Some(GH_PROXY_COM \o GITHUB_COM \o ReleaseTail(r))
      [] proxy_type = "Jsdelivr" -> None
      [] proxy_type = "Statically" -> None

url(r, proxy_type) ==
    IF r.kind = "File" THEN Some(FileUrl(r, proxy_type)) ELSE ReleaseUrl(r, proxy_type)

(***************************************************************************)
(* Proxy::from_str (proxy.rs)                                              *)
(***************************************************************************)
S_github == <<"g", "i", "t", "h", "u", "b">>

S_gh_proxy == <<"g", "h", "-", "p", "r", "o", "x", "y">>

S_xget == <<"x", "g", "e", "t">>

S_jsdelivr == <<"j", "s", "d", "e", "l", "i", "v", "r">>

S_statically == <<"s", "t", "a", "t", "i", "c", "a", "l", "l", "y">>

ProxyOk(p) == [ok |-> TRUE, proxy |-> p, err |-> "", arg |-> <<>>]

InvalidProxyType(s) == [ok |-> FALSE, proxy |-> "", err |-> "InvalidProxyType", arg |-> s]

NoProxy == [ok |-> FALSE, proxy |-> "", err |-> "None", arg |-> <<>>]

\* from_str matching the identifier as written, without to_lowercase
from_str_case_sensitive(s) ==
    CASE s = S_github -> ProxyOk("Github")
      [] s = S_gh_proxy -> ProxyOk("GhProxy")
      [] s = S_xget -> ProxyOk("Xget")
      [] s = S_jsdelivr -> ProxyOk("Jsdelivr")
      [] OTHER -> InvalidProxyType(s)

from_str(s) ==
    LET l == to_lowercase(s)
    IN  CASE l = S_github -> ProxyOk("Github")
          [] l = S_gh_proxy -> ProxyOk("GhProxy")
          [] l = S_xget -> ProxyOk("Xget")
          [] l = S_jsdelivr -> ProxyOk("Jsdelivr")
          [] OTHER -> InvalidProxyType(s)

\* The identifiers the InvalidProxyType message lists as supported
\* ("Supported types: github, gh-proxy, xget, jsdelivr, statically")
SupportedTypes == {S_github, S_gh_proxy, S_xget, S_jsdelivr, S_statically}

(***************************************************************************)
(* Inputs.                                                                 *)
(***************************************************************************)
\* Sequences over S of length 0..n
SeqsUpTo(S, n) == UNION {[1..k -> S] : k \in 0..n}

HTTPS_GITHUB == GITHUB_COM

HTTP_GITHUB == <<"h", "t", "t", "p", ":", "/", "/",
                 "g", "i", "t", "h", "u", "b", ".", "c", "o", "m", "/">>

\* Segments a generated URL draws its rest-path from
TailSeg == {<<>>, REFS, <<"a">>, <<"r", "a", "w">>}

\* What follows owner/repo: the three recognised shapes and two others
Markers ==
    {<<<<"r", "a", "w">>>>, <<<<"b", "l", "o", "b">>>>,
     <<<<"r", "e", "l", "e", "a", "s", "e", "s">>, <<"d", "o", "w", "n", "l", "o", "a", "d">>>>,
     <<<<"r", "e", "l", "e", "a", "s", "e", "s">>>>, <<<<"t", "r", "e", "e">>>>}

\* URLs on the source host: scheme, owner, repo, marker and a rest-path
ShapedUrls ==
    {scheme \o Join(<<owner, <<"r">>>> \o marker \o tail) :
        scheme \in {HTTPS_GITHUB, HTTP_GITHUB},
        owner \in {<<"o">>, <<>>},
        marker \in Markers,
        tail \in SeqsUpTo(TailSeg, MaxTail)}

\* Prefixes that are not http(s)://github.com/
BadPrefixes ==
    {<<"f", "t", "p", ":", "/", "/", "g", "i", "t", "h", "u", "b", ".", "c", "o", "m", "/">>,
     <<"h", "t", "t", "p", "s", ":", "/", "/", "e", "x", "a", "m", "p", "l", "e", ".", "c", "o", "m", "/">>,
     <<"h", "t", "t", "p", "s", ":", "/", "/", "g", "i", "t", "h", "u", "b", "x", "c", "o", "m", "/">>,
     <<"h", "t", "t", "p", "s", "s", ":", "/", "/", "g", "i", "t", "h", "u", "b", ".", "c", "o", "m", "/">>,
     <<"x", "h", "t", "t", "p", "s", ":", "/", "/", "g", "i", "t", "h", "u", "b", ".", "c", "o", "m", "/">>,
     <<"H", "T", "T", "P", "S", ":", "/", "/", "g", "i", "t", "h", "u", "b", ".", "c", "o", "m", "/">>,
     <<"h", "t", "t", "p", "s", ":", "/", "/", "g", "i", "t", "h", "u", "b", ".", "c", "o", "m">>,
     <<>>}

\* Rest of a URL that would parse behind the right prefix
GoodBodies ==
    {<<"o", "/", "r">> \o RAW_SEG \o <<"a", "/", "a">>,
     <<"o", "/", "r">> \o BLOB_SEG \o <<"a", "/", "a">>,
     <<"o", "/", "r">> \o REL_SEG \o <<"a", "/", "a">>,
     <<"f", "i", "l", "e", ".", "s", "h">>}

Pads == {<<>>, <<" ">>, <<"\n">>, <<"\t", " ">>}

\* Inputs with a wrong prefix, with surrounding whitespace, or with whitespace
\* or a line feed inside
OddUrls ==
    {pre \o body : pre \in BadPrefixes, body \in GoodBodies}
    \cup {l \o HTTPS_GITHUB \o body \o r :
            l \in Pads, r \in Pads, body \in GoodBodies}
    \cup {HTTPS_GITHUB \o owner \o <<"/", "r">> \o RAW_SEG \o rest :
            owner \in {<<"o", "\n">>, <<" ", "o">>},
            rest \in {<<"a", "/", "a">>, <<"a", "/", "\n", "a">>, <<"a", " ", "/", "a">>}}
    \cup {HTTPS_GITHUB \o <<"o", "/", "r">> \o REL_SEG \o rest :
            rest \in {<<"a", "\n", "/", "a">>, <<"a", "/", "a", "\n", "a">>}}

UrlInputs == ShapedUrls \cup OddUrls

\* Arguments of the constructors (cli.rs passes them on as given)
Owners == {<<"o">>, <<>>}

Repos == {<<"r">>}

\* reference or tag
Thirds ==
    {<<"m">>, REFS, <<>>, <<"x", "/", "y">>,
     <<"r", "e", "f", "s", "/", "h", "e", "a", "d", "s", "/", "m">>,
     <<"r", "e", "f", "s", "/", "t", "a", "g", "s", "/", "m">>}

PathSeg == {<<"a">>, <<>>, <<"b", " ">>, <<"\n", "c">>}

\* path or name: 1..MaxPathSegs segments joined with '/'
Fourths == {Join(segs) : segs \in SeqsUpTo(PathSeg, MaxPathSegs) \ {<<>>}}

ArgSets == Owners \X Repos \X Thirds \X Fourths

\* s with the letters at the positions P in upper case
UpperAt(s, P) == [i \in 1..Len(s) |-> IF i \in P THEN ToUpperChar(s[i]) ELSE s[i]]

ProxyNames ==
    SupportedTypes
    \cup {<<"g", "i", "t">>, <<>>, <<" ", "x", "g", "e", "t">>, <<"x", "g", "e", "t", "\n">>,
          <<"g", "h", "_", "p", "r", "o", "x", "y">>, <<"g", "i", "t", "h", "u", "b", "s">>}

\* Identifiers in every mix of case with at most MaxUpper upper-case letters
ProxyInputs ==
    {UpperAt(s, P) : <<s, P>> \in
        {sp \in UNION {{s} \X SUBSET (1..Len(s)) : s \in ProxyNames} :
            Cardinality(sp[2]) <= MaxUpper}}

(***************************************************************************)
(* lib.rs: the string-level entry point convert_url with its own parsers   *)
(* RawFile::parse and ReleaseAsset::parse.                                 *)
(***************************************************************************)
\* str::trim_start_matches(p): strips every leading repetition of p
RECURSIVE trim_start_matches(_, _)
trim_start_matches(s, p) ==
    IF p # <<>> /\ StartsWith(s, p) THEN trim_start_matches(Drop(s, Len(p)), p) ELSE s

\* str::contains(p)
contains(s, p) == \E i \in 1..(Len(s) - Len(p) + 1) : SubSeq(s, i, i + Len(p) - 1) = p

\* str::split(p) for a string pattern: leftmost matches, not overlapping
RECURSIVE SplitStrAcc(_, _, _, _)
SplitStrAcc(s, p, cur, acc) ==
    IF s = <<>> THEN Append(acc, cur)
    ELSE IF StartsWith(s, p) THEN SplitStrAcc(Drop(s, Len(p)), p, <<>>, Append(acc, cur))
    ELSE SplitStrAcc(Tail(s), p, Append(cur, Head(s)), acc)

SplitStr(s, p) == SplitStrAcc(s, p, <<>>, <<>>)

\* Result<_, ConversionError> of lib.rs: every error carries a message
LibOk(v) == [ok |-> TRUE, val |-> v, err |-> "", msg |-> ""]

LibErr(err, msg) == [ok |-> FALSE, val |-> NoResource, err |-> err, msg |-> msg]

NoLibResult == LibErr("None", "")

RawFile(owner, repo, reference, path) ==
    [kind |-> "RawFile", owner |-> owner, repo |-> repo,
     reference |-> reference, path |-> path]

ReleaseAsset(owner, repo, tag, filename) ==
    [kind |-> "ReleaseAsset", owner |-> owner, repo |-> repo,
     tag |-> tag, filename |-> filename]

\* Proxy::from_str of lib.rs
Proxy_from_str(s) ==
    LET l == to_lowercase(s)
    IN  CASE l = S_github -> LibOk("Github")
          [] l = S_gh_proxy -> LibOk("GhProxy")
          [] l = S_xget -> LibOk("Xget")
          [] l = S_jsdelivr -> LibOk("Jsdelivr")
          [] OTHER -> LibErr("InvalidProxyType", "")

\* RawFile::parse
RawFile_parse(u) ==
    IF ~StartsWith(u, GITHUB_COM)
    THEN LibErr("InvalidUrl", "URL must start with 'https://github.com/'")
    ELSE
    LET after_github == trim_start_matches(u, GITHUB_COM)
        parts == SplitStr(after_github, RAW_SEG)
        owner_repo == Split(parts[1])
        ref_path_parts == Split(parts[2])
        n == Len(ref_path_parts)
        refs == n >= 4 /\ ref_path_parts[1] = REFS
        reference ==
            IF refs
            THEN ref_path_parts[1] \o <<"/">> \o ref_path_parts[2] \o <<"/">> \o ref_path_parts[3]
            ELSE ref_path_parts[1]
        path ==
            IF refs THEN Join(SubSeq(ref_path_parts, 4, n))
            ELSE Join(SubSeq(ref_path_parts, 2, n))
    IN  IF ~contains(after_github, RAW_SEG)
        THEN LibErr("ParseError", "Raw file URL must contain '/raw/' segment")
        ELSE IF Len(parts) # 2
        THEN LibErr("ParseError", "Invalid raw file URL format")
        ELSE IF Len(owner_repo) # 2
        THEN LibErr("ParseError", "Invalid owner/repo format")
        ELSE IF n = 0
        THEN LibErr("ParseError", "Missing reference and path")
        ELSE IF ~refs /\ n < 2
        THEN LibErr("ParseError", "Invalid reference/path format")
        ELSE IF reference = <<>> \/ path = <<>>
        THEN LibErr("ParseError", "Missing reference or path")
        ELSE LibOk(RawFile(owner_repo[1], owner_repo[2], reference, path))

\* RawFile::url
RawFile_url(f, p) ==
    CASE p = "Github" -> GITHUB_COM \o f.owner \o <<"/">> \o f.repo \o RAW_SEG
                            \o f.reference \o <<"/">> \o f.path
      [] p = "Xget" -> XGET_GH \o f.owner \o <<"/">> \o f.repo \o RAW_SEG
                            \o f.reference \o <<"/">> \o f.path
      [] p = "GhProxy" -> GH_PROXY_COM \o GITHUB_COM \o f.owner \o <<"/">> \o f.repo \o RAW_SEG
                            \o f.reference \o <<"/">> \o f.path
      [] p = "Jsdelivr" -> JSDELIVR_GH \o f.owner \o <<"/">> \o f.repo \o <<"@">>
                            \o f.reference \o <<"/">> \o f.path

\* ReleaseAsset::parse
ReleaseAsset_parse(u) ==
    IF ~StartsWith(u, GITHUB_COM)
    THEN LibErr("InvalidUrl", "URL must start with 'https://github.com/'")
    ELSE
    LET after_github == trim_start_matches(u, GITHUB_COM)
        parts == SplitStr(after_github, REL_SEG)
        owner_repo == Split(parts[1])
        tag_filename_parts == Split(parts[2])
    IN  IF ~contains(after_github, REL_SEG)
        THEN LibErr("ParseError", "Release asset URL must contain '/releases/download/' segment")
        ELSE IF Len(parts) # 2
        THEN LibErr("ParseError", "Invalid release asset URL format")
        ELSE IF Len(owner_repo) # 2
        THEN LibErr("ParseError", "Invalid owner/repo format")
        ELSE IF Len(tag_filename_parts) # 2
        THEN LibErr("ParseError", "Invalid tag/filename format")
        ELSE IF tag_filename_parts[1] = <<>> \/ tag_filename_parts[2] = <<>>
        THEN LibErr("ParseError", "Missing tag or filename")
        ELSE LibOk(ReleaseAsset(owner_repo[1], owner_repo[2],
                                tag_filename_parts[1], tag_filename_parts[2]))

\* ReleaseAsset::url
ReleaseAsset_url(a, p) ==
    CASE p = "Github" -> GITHUB_COM \o a.owner \o <<"/">> \o a.repo \o REL_SEG
                            \o a.tag \o <<"/">> \o a.filename
      [] p = "Xget" -> XGET_GH \o a.owner \o <<"/">> \o a.repo \o REL_SEG
                            \o a.tag \o <<"/">> \o a.filename
      [] p = "GhProxy" -> GH_PROXY_COM \o GITHUB_COM \o a.owner \o <<"/">> \o a.repo \o REL_SEG
                            \o a.tag \o <<"/">> \o a.filename
      [] p = "Jsdelivr" -> JSDELIVR_GH \o a.owner \o <<"/">> \o a.repo \o <<"@">>
                            \o a.tag \o <<"/">> \o a.filename

\* GitHubUrl::parse
GitHubUrl_parse(u) ==
    IF RawFile_parse(u).ok THEN RawFile_parse(u)
    ELSE IF ReleaseAsset_parse(u).ok THEN ReleaseAsset_parse(u)
    ELSE LibErr("UnsupportedUrlType", "URL does not match raw file or release asset patterns")

\* GitHubUrl::url
GitHubUrl_url(g, p) ==
    IF g.kind = "RawFile" THEN RawFile_url(g, p) ELSE ReleaseAsset_url(g, p)

\* convert_url(proxy, github_url)
convert_url(proxy_str, github_url) ==
    LET p == Proxy_from_str(proxy_str)
        g == GitHubUrl_parse(github_url)
    IN  IF ~p.ok THEN p
        ELSE IF ~g.ok THEN g
        ELSE LibOk(GitHubUrl_url(g.val, p.val))


(***************************************************************************)
(* The state: one call sequence of a caller of the library.                *)
(***************************************************************************)
VARIABLES
    pc,         \* where the caller is
    input,      \* the string given to Resource::try_from
    args,       \* <<owner, repo, reference-or-tag, path-or-name>> for a constructor
    proxy_arg,  \* the string given to Proxy::from_str
    parsed,     \* the Result of Resource::try_from
    resource,   \* the Resource in hand
    proxy,      \* the Result of Proxy::from_str, or the Proxy chosen
    out,        \* the Option<String> of Resource::url
    lib_parsed, \* the Result of GitHubUrl::parse inside convert_url
    converted,  \* the Result of convert_url
    th,         \* per thread: position in Resource::try_from, input, results
    cell,       \* the three static OnceLock<Regex> cells of resource.rs
    inits,      \* per cell: how often its initialiser closure has run
    uninit_seen \* a cell was handed out before its initialiser had finished

lib_vars == <<lib_parsed, converted>>

thread_vars == <<th, cell, inits, uninit_seen>>

vars == <<pc, input, args, proxy_arg, parsed, resource, proxy, out,
          lib_parsed, converted, th, cell, inits, uninit_seen>>

NoArgs == <<<<>>, <<>>, <<>>, <<>>>>

\* The threads that call into the library at the same time
NumThreads == 2

Threads == 1..NumThreads

\* static RE: OnceLock<Regex> of raw_file_regex, blob_file_regex and
\* release_download_regex
Cells == {"raw", "blob", "release"}

IdleThread ==
    [pc |-> "idle", re |-> "raw", input |-> <<>>, result |-> NoResult,
     proxy |-> "", out |-> None]

\* convert_url has not been called
NoLib ==
    /\ lib_parsed = NoLibResult
    /\ converted = NoLibResult

\* No thread has called yet: every OnceLock is still empty
NoThreads ==
    /\ th = [t \in Threads |-> IdleThread]
    /\ cell = [c \in Cells |-> "uninit"]
    /\ inits = [c \in Cells |-> 0]
    /\ uninit_seen = FALSE

Blank ==
    /\ pc = "start"
    /\ parsed = NoResult
    /\ resource = NoResource
    /\ proxy = NoProxy
    /\ out = None

(***************************************************************************)
(* Operations.                                                             *)
(***************************************************************************)
\* Resource::try_from(input)
TryFrom ==
    /\ pc = "start"
    /\ parsed' = try_from(input)
    /\ resource' = parsed'.val
    /\ pc' = IF parsed'.ok THEN "parsed" ELSE "failed"
    /\ UNCHANGED <<input, args, proxy_arg, proxy, out>>
    /\ UNCHANGED <<lib_vars, thread_vars>>

\* resource.url(&proxy_type), for any variant of Proxy
Url ==
    /\ pc \in {"parsed", "built"}
    /\ \E p \in Proxy :
         /\ proxy' = ProxyOk(p)
         /\ out' = url(resource, p)
    /\ pc' = IF pc = "parsed" THEN "rendered" ELSE "printed"
    /\ UNCHANGED <<input, args, proxy_arg, parsed, resource>>
    /\ UNCHANGED <<lib_vars, thread_vars>>

\* Resource::file(owner, repo, reference, path)
NewFile ==
    /\ pc = "args"
    /\ resource' = File(args[1], args[2], args[3], args[4])
    /\ pc' = "built"
    /\ UNCHANGED <<input, args, proxy_arg, parsed, proxy, out>>
    /\ UNCHANGED <<lib_vars, thread_vars>>

\* Resource::release(owner, repo, tag, name)
NewRelease ==
    /\ pc = "args"
    /\ resource' = Release(args[1], args[2], args[3], args[4])
    /\ pc' = "built"
    /\ UNCHANGED <<input, args, proxy_arg, parsed, proxy, out>>
    /\ UNCHANGED <<lib_vars, thread_vars>>

\* Resource::try_from on the url that Resource::url returned
TryFromOut ==
    /\ pc = "printed"
    /\ out.some
    /\ input' = out.url
    /\ parsed' = try_from(out.url)
    /\ pc' = "reparsed"
    /\ UNCHANGED <<args, proxy_arg, resource, proxy, out>>
    /\ UNCHANGED <<lib_vars, thread_vars>>

\* Proxy::from_str(proxy_arg)
FromStr ==
    /\ pc = "proxy_arg"
    /\ proxy' = from_str(proxy_arg)
    /\ pc' = IF proxy'.ok THEN "proxy" ELSE "proxy_failed"
    /\ UNCHANGED <<input, args, proxy_arg, parsed, resource, out>>
    /\ UNCHANGED <<lib_vars, thread_vars>>

(***************************************************************************)
(* Specifications.                                                         *)
(***************************************************************************)
\* A URL is parsed and the Resource rendered
Init ==
    /\ Blank
    /\ NoLib /\ NoThreads
    /\ input \in UrlInputs
    /\ args = NoArgs
    /\ proxy_arg = <<>>

Next == TryFrom \/ Url

Spec == Init /\ [][Next]_vars

\* A Resource is built from its fields, rendered, and the url parsed back
InitBuild ==
    /\ NoLib /\ NoThreads
    /\ parsed = NoResult /\ resource = NoResource /\ proxy = NoProxy /\ out = None
    /\ pc = "args"
    /\ input = <<>>
    /\ args \in ArgSets
    /\ proxy_arg = <<>>

NextBuild == NewFile \/ NewRelease \/ Url \/ TryFromOut

SpecBuild == InitBuild /\ [][NextBuild]_vars

\* A proxy identifier is parsed
InitProxy ==
    /\ NoLib /\ NoThreads
    /\ parsed = NoResult /\ resource = NoResource /\ proxy = NoProxy /\ out = None
    /\ pc = "proxy_arg"
    /\ input = <<>>
    /\ args = NoArgs
    /\ proxy_arg \in ProxyInputs

NextProxy == FromStr

SpecProxy == InitProxy /\ [][NextProxy]_vars

(***************************************************************************)
(* Vocabulary of the properties.                                           *)
(***************************************************************************)
Has(s, c) == \E i \in 1..Len(s) : s[i] = c

\* A name: non-empty and without '/'
IsName(s) == s # <<>> /\ ~Has(s, "/")

\* Position of the n-th '/' of s, 0 when there are fewer
NthSlash(s, n) ==
    LET at == {i \in 1..Len(s) : s[i] = "/"}
        upto(i) == Cardinality({j \in at : j <= i})
    IN  IF Cardinality(at) < n THEN 0
        ELSE CHOOSE i \in at : upto(i) = n

Str_https == <<"h", "t", "t", "p", "s", ":">>

Str_http == <<"h", "t", "t", "p", ":">>

Str_github_com == <<"g", "i", "t", "h", "u", "b", ".", "c", "o", "m">>

Str_raw == <<"r", "a", "w">>

Str_blob == <<"b", "l", "o", "b">>

Str_releases == <<"r", "e", "l", "e", "a", "s", "e", "s">>

Str_download == <<"d", "o", "w", "n", "l", "o", "a", "d">>

Str_heads == <<"h", "e", "a", "d", "s">>

Str_tags == <<"t", "a", "g", "s">>

\* The source URL of a resource, written segment by segment
NativeSegments(r) ==
    IF r.kind = "File"
    THEN <<Str_https, <<>>, Str_github_com, r.owner, r.repo, Str_raw, r.reference, r.path>>
    ELSE <<Str_https, <<>>, Str_github_com, r.owner, r.repo, Str_releases, Str_download,
           r.tag, r.name>>

Rendered == pc \in {"rendered", "printed", "reparsed"}

(***************************************************************************)
(* C1.  Capability gating: a Release rendered under jsdelivr or statically *)
(* gives None; a Release rendered under github, gh-proxy or xget gives     *)
(* Some(url); a File rendered under any proxy gives Some(url).             *)
(***************************************************************************)
C1_CapabilityGating ==
    Rendered =>
        /\ (resource.kind = "Release" /\ proxy.proxy \in {"Jsdelivr", "Statically"})
              => out = None
        /\ (resource.kind = "Release" /\ proxy.proxy \in {"Github", "GhProxy", "Xget"})
              => out.some
        /\ resource.kind = "File" => out.some

\* A Release was rendered under statically and gave None
C1_Witness ==
    /\ pc = "printed"
    /\ resource.kind = "Release"
    /\ proxy.proxy = "Statically"
    /\ out = None

(***************************************************************************)
(* C6.  Template table: for every supported (proxy, kind) pair the url is  *)
(* the fixed template with owner, repo, reference-or-tag and path-or-name  *)
(* put in verbatim: github is the source URL, gh-proxy is                   *)
(* https://gh-proxy.com/ followed by the whole source URL, xget is          *)
(* https://xget.xi-xu.me/gh/ followed by the source URL's path, jsdelivr is *)
(* https://cdn.jsdelivr.net/gh/{o}/{r}@{ref}/{path} and statically is       *)
(* https://cdn.statically.io/gh/{o}/{r}/{ref}/{path}.                       *)
(***************************************************************************)
C6_Template(r, p) ==
    LET native == NativeSegments(r)
    IN  CASE p = "Github" -> Join(native)
          [] p = "GhProxy" ->
                Join(<<Str_https, <<>>, <<"g", "h", "-", "p", "r", "o", "x", "y", ".", "c", "o", "m">>>>
                     \o native)
          [] p = "Xget" ->
                Join(<<Str_https, <<>>, <<"x", "g", "e", "t", ".", "x", "i", "-", "x", "u", ".", "m", "e">>,
                       <<"g", "h">>>> \o SubSeq(native, 4, Len(native)))
          [] p = "Jsdelivr" ->
                Join(<<Str_https, <<>>,
                       <<"c", "d", "n", ".", "j", "s", "d", "e", "l", "i", "v", "r", ".", "n", "e", "t">>,
                       <<"g", "h">>, r.owner, r.repo \o <<"@">> \o r.reference, r.path>>)
          [] p = "Statically" ->
                Join(<<Str_https, <<>>,
                       <<"c", "d", "n", ".", "s", "t", "a", "t", "i", "c", "a", "l", "l", "y", ".", "i", "o">>,
                       <<"g", "h">>, r.owner, r.repo, r.reference, r.path>>)

\* C6: every url that Resource::url returns is the template of the table, the
\* fields put in verbatim
C6_TemplateTable ==
    (Rendered /\ out.some) => out.url = C6_Template(resource, proxy.proxy)

\* A File with the reference refs/heads/m was rendered under jsdelivr
C6_Witness ==
    /\ pc = "printed"
    /\ resource.kind = "File"
    /\ resource.reference = <<"r", "e", "f", "s", "/", "h", "e", "a", "d", "s", "/", "m">>
    /\ proxy.proxy = "Jsdelivr"
    /\ out.some
    /\ Has(out.url, "@")

(***************************************************************************)
(* C2.  Round trip from the model.  A valid Resource has non-empty fields, *)
(* owner, repo, tag and name without '/', a reference that is a name       *)
(* (branch, tag, commit hash) or refs/heads/<name> or refs/tags/<name>,    *)
(* and a path of one or more segments joined with '/'.                     *)
(***************************************************************************)
C2_IsReference(s) ==
    \/ IsName(s)
    \/ LET parts == Split(s)
       IN  /\ Len(parts) = 3
           /\ parts[1] = REFS
           /\ parts[2] \in {Str_heads, Str_tags}
           /\ parts[3] # <<>>

C2_IsPath(s) == \A seg \in {Split(s)[i] : i \in 1..Len(Split(s))} : seg # <<>>

C2_Valid(r) ==
    /\ IsName(r.owner)
    /\ IsName(r.repo)
    /\ IF r.kind = "File"
       THEN C2_IsReference(r.reference) /\ C2_IsPath(r.path)
       ELSE IsName(r.tag) /\ IsName(r.name)

C2_RoundTrip ==
    /\ out = Some(Join(NativeSegments(resource)))
    /\ parsed = Ok(resource)

\* C2 as stated: every valid Resource rendered under github gives the
\* source URL, and parsing that URL gives the Resource back
C2_AsStated ==
    (pc = "reparsed" /\ proxy.proxy = "Github" /\ C2_Valid(resource)) => C2_RoundTrip

\* The last field, the one the url ends with
C2_Last(r) == IF r.kind = "File" THEN r.path ELSE r.name

\* The fields behind the shape marker, which the regex takes with . or [^/]
C2_Behind(r) ==
    IF r.kind = "File" THEN {r.reference, r.path} ELSE {r.name}

\* What the round trip needs besides validity: the url does not end in
\* whitespace, no line feed behind the marker where '.' has to match it, and
\* not the bare reference 'refs' before a path of three or more segments
C2_Unambiguous(r) ==
    /\ ~IsWhitespace(C2_Last(r)[Len(C2_Last(r))])
    /\ \A f \in C2_Behind(r) : ~Has(f, "\n")
    /\ r.kind = "File" => ~(r.reference = REFS /\ Len(Split(r.path)) >= 3)

\* C2, amended: the round trip holds for every valid Resource whose url does
\* not end in whitespace, that has no line feed in its reference, path or name,
\* and that is not the reference 'refs' with a path of three or more segments
C2_RoundTripFromModel ==
    (pc = "reparsed" /\ proxy.proxy = "Github"
        /\ C2_Valid(resource) /\ C2_Unambiguous(resource)) => C2_RoundTrip

\* A File with the reference refs/heads/m and a path of three segments came back
C2_Witness ==
    /\ pc = "reparsed"
    /\ proxy.proxy = "Github"
    /\ resource.kind = "File"
    /\ resource.reference = <<"r", "e", "f", "s", "/", "h", "e", "a", "d", "s", "/", "m">>
    /\ resource.path = <<"a", "/", "a", "/", "a">>
    /\ parsed = Ok(resource)

(***************************************************************************)
(* C3.  Round trip from the URL.  A well-formed source URL is              *)
(* http(s)://github.com/{owner}/{repo}/ followed by raw/ or blob/ and a    *)
(* reference and a path of non-empty segments, or by                       *)
(* releases/download/{tag}/{filename}; no whitespace in it.                *)
(***************************************************************************)
AllParts(parts) == {parts[i] : i \in 1..Len(parts)}

C3_WellFormed(u) ==
    LET parts == Split(u)
    IN  /\ Len(parts) >= 8
        /\ parts[1] \in {Str_https, Str_http}
        /\ parts[2] = <<>>
        /\ parts[3] = Str_github_com
        /\ \A seg \in AllParts(SubSeq(parts, 4, Len(parts))) :
              seg # <<>> /\ \A i \in 1..Len(seg) : ~IsWhitespace(seg[i])
        /\ \/ parts[6] \in {Str_raw, Str_blob}
           \/ parts[6] = Str_releases /\ parts[7] = Str_download /\ Len(parts) = 9

\* u with the scheme https and the marker blob replaced by raw
C3_Canonical(u) ==
    LET parts == Split(u)
    IN  Join(<<Str_https>> \o SubSeq(parts, 2, 5)
             \o <<IF parts[6] = Str_blob THEN Str_raw ELSE parts[6]>>
             \o SubSeq(parts, 7, Len(parts)))

\* C3 as stated: parsing a well-formed URL succeeds and rendering the
\* result under github returns exactly the URL
C3_AsStated ==
    C3_WellFormed(input) =>
        /\ pc # "start" => parsed.ok
        /\ (pc = "rendered" /\ proxy.proxy = "Github") => out = Some(input)

\* C3, amended: parsing a well-formed URL succeeds, and rendering the result
\* under github returns the URL with the scheme https and with raw for blob;
\* that is the URL itself when it is an https URL of the raw or the
\* releases/download shape
C3_RoundTripFromUrl ==
    C3_WellFormed(input) =>
        /\ pc # "start" => parsed.ok
        /\ (pc = "rendered" /\ proxy.proxy = "Github") =>
              /\ out = Some(C3_Canonical(input))
              /\ (Split(input)[1] = Str_https /\ Split(input)[6] # Str_blob)
                    => out = Some(input)

\* An https raw URL with a refs/ reference of four segments was rendered back
C3_Witness ==
    /\ pc = "rendered"
    /\ proxy.proxy = "Github"
    /\ C3_WellFormed(input)
    /\ Split(input)[1] = Str_https
    /\ Split(input)[6] = Str_raw
    /\ Split(input)[7] = REFS
    /\ Len(Split(input)) = 10
    /\ out = Some(input)

(***************************************************************************)
(* C4.  Whenever try_from returns Ok, every string field of the Resource   *)
(* is non-empty.                                                           *)
(***************************************************************************)
C4_NonEmptyFields ==
    parsed.ok =>
        /\ parsed.val.owner # <<>>
        /\ parsed.val.repo # <<>>
        /\ IF parsed.val.kind = "File"
           THEN parsed.val.reference # <<>> /\ parsed.val.path # <<>>
           ELSE parsed.val.tag # <<>> /\ parsed.val.name # <<>>

(***************************************************************************)
(* C5.  Splitting the rest-path of a File URL.  Stated on the characters   *)
(* of rest: the reference ends before the 3rd '/' when rest starts with    *)
(* refs/ and has at least 3 '/' (4 segments), else before the 1st '/'; the *)
(* path is everything behind that '/'; without a '/' the split fails.      *)
(***************************************************************************)
\* The rest-path the raw or the blob regex captured from the input
C5_IsFileUrl == raw_file_regex(Trim(input)).matched \/ blob_file_regex(Trim(input)).matched

C5_Rest ==
    IF raw_file_regex(Trim(input)).matched
    THEN raw_file_regex(Trim(input)).rest
    ELSE blob_file_regex(Trim(input)).rest

C5_RefsForm(rest) == StartsWith(rest, REFS \o <<"/">>) /\ NthSlash(rest, 3) # 0

C5_Cut(rest) == NthSlash(rest, IF C5_RefsForm(rest) THEN 3 ELSE 1)

C5_Expected(rest) ==
    Ok(File(Split(Trim(input))[4], Split(Trim(input))[5],
            Take(rest, C5_Cut(rest) - 1), Drop(rest, C5_Cut(rest))))

C9_HeadOk(parts) ==
    /\ Len(parts) >= 6
    /\ parts[1] \in {Str_https, Str_http}
    /\ parts[2] = <<>>
    /\ parts[3] = Str_github_com
    /\ parts[4] # <<>>
    /\ parts[5] # <<>>

\* A placeholder that runs to the end of the URL: not empty, on one line
C9_ToEnd(parts, from) ==
    /\ Len(parts) >= from
    /\ Join(SubSeq(parts, from, Len(parts))) # <<>>
    /\ ~Has(Join(SubSeq(parts, from, Len(parts))), "\n")

C9_Shape(v) ==
    LET parts == Split(v)
    IN  /\ C9_HeadOk(parts)
        /\ \/ parts[6] \in {Str_raw, Str_blob} /\ C9_ToEnd(parts, 7)
           \/ /\ parts[6] = Str_releases
              /\ Len(parts) >= 9
              /\ parts[7] = Str_download
              /\ parts[8] # <<>>
              /\ C9_ToEnd(parts, 9)

C10_ReleaseSegments ==
    (parsed.ok /\ parsed.val.kind = "Release") =>
        /\ ~Has(parsed.val.tag, "/")
        /\ ~Has(parsed.val.name, "/")
        /\ LET parts == Split(Trim(input))
           IN  parsed.val = Release(parts[4], parts[5], parts[Len(parts) - 1], parts[Len(parts)])

(***************************************************************************)
(* C7.  Proxy identifiers are parsed without regard to case: from_str(s)   *)
(* and from_str(lowercase(s)) both fail or both give the same Proxy.       *)
(***************************************************************************)
C7_CaseInsensitive ==
    pc # "proxy_arg" =>
        LET lower == from_str(to_lowercase(proxy_arg))
        IN  /\ proxy.ok = lower.ok
            /\ proxy.proxy = lower.proxy

\* XGet was parsed to Xget
C7_Witness ==
    /\ pc = "proxy"
    /\ proxy_arg = <<"X", "G", "e", "t">>
    /\ proxy = ProxyOk("Xget")

(***************************************************************************)
(* C8.  Registry consistency: from_str fails, with InvalidProxyType(input),*)
(* exactly for the identifiers outside the set the error names as          *)
(* supported (github, gh-proxy, xget, jsdelivr, statically); every proxy   *)
(* that Resource::url has templates for is obtained from its identifier.   *)
(***************************************************************************)
C8_RegistryConsistent ==
    pc # "proxy_arg" =>
        /\ proxy.ok <=> to_lowercase(proxy_arg) \in SupportedTypes
        /\ ~proxy.ok => proxy = InvalidProxyType(proxy_arg)

(***************************************************************************)
(* convert_url next to Resource::try_from and Resource::url.               *)
(***************************************************************************)
\* Segments after the marker in the URLs given to convert_url
MaxRest == 3

RestSeg == {<<>>, <<"a">>, <<"r", "a", "w">>}

\* What a URL given to convert_url starts with: the prefix, http://, the
\* prefix twice, the prefix behind a space
ConvertPrefixes ==
    {HTTPS_GITHUB, HTTP_GITHUB, HTTPS_GITHUB \o HTTPS_GITHUB, <<" ">> \o HTTPS_GITHUB}

ConvertMarkers ==
    {<<<<"r", "a", "w">>>>, <<<<"b", "l", "o", "b">>>>,
     <<<<"r", "e", "l", "e", "a", "s", "e", "s">>, <<"d", "o", "w", "n", "l", "o", "a", "d">>>>}

ConvertUrls ==
    {pre \o Join(<<<<"o">>, <<"r">>>> \o marker \o tail) :
        pre \in ConvertPrefixes,
        marker \in ConvertMarkers,
        tail \in SeqsUpTo(RestSeg, MaxRest)}
    \cup {HTTPS_GITHUB \o <<"/", "r">> \o RAW_SEG \o <<"a", "/", "a">>,
          HTTPS_GITHUB \o <<"o", "/", "r">> \o REL_SEG \o <<"a", "/", "a">> \o <<" ">>,
          HTTPS_GITHUB \o <<"o", "/", "r">> \o RAW_SEG \o REFS \o <<"/">>
              \o <<"h", "e", "a", "d", "s", "/", "m", "/", "a">>,
          HTTPS_GITHUB \o <<"o", "/", "r">> \o RAW_SEG \o REFS \o <<"/">>
              \o <<"h", "e", "a", "d", "s", "/", "m">>,
          <<"f", "i", "l", "e", ".", "s", "h">>}

\* The proxy argument of convert_url
ConvertProxies ==
    {S_github, S_gh_proxy, S_xget, S_jsdelivr, S_statically,
     <<"J", "s", "D", "e", "l", "i", "v", "r">>, <<"g", "i", "t">>}

\* convert_url(proxy_arg, input)
ConvertUrl ==
    /\ converted = NoLibResult
    /\ pc \in {"start", "parsed", "failed", "rendered"}
    /\ converted' = convert_url(proxy_arg, input)
    /\ lib_parsed' = IF Proxy_from_str(proxy_arg).ok
                     THEN GitHubUrl_parse(input) ELSE NoLibResult
    /\ UNCHANGED <<pc, input, args, proxy_arg, parsed, resource, proxy, out>>
    /\ UNCHANGED thread_vars

\* One URL and one proxy name, given to convert_url and to Resource::try_from
\* and Resource::url
InitConvert ==
    /\ Blank
    /\ NoLib /\ NoThreads
    /\ input \in ConvertUrls
    /\ args = NoArgs
    /\ proxy_arg \in ConvertProxies

NextConvert == ConvertUrl \/ TryFrom \/ Url

SpecConvert == InitConvert /\ [][NextConvert]_vars

\* The proxy variant convert_url was called with
ConvertProxy == Proxy_from_str(proxy_arg).val

\* C11: convert_url never returns Ok for a proxy and a resource kind with no
\* template in the table of Resource::url; in particular not for jsdelivr and
\* a release-download URL
C11_GatedConvert ==
    (converted.ok /\ lib_parsed.ok /\ lib_parsed.val.kind = "ReleaseAsset")
        => LET a == lib_parsed.val
           IN  url(Release(a.owner, a.repo, a.tag, a.filename), ConvertProxy).some

\* An input of the raw-file or release-download shape, in the wide sense of
\* the claim: it holds a '/raw/' or a '/releases/download/' marker and is not
\* a blob page
C14_InScope(u) ==
    /\ contains(u, RAW_SEG) \/ contains(u, REL_SEG)
    /\ ~blob_file_regex(Trim(u)).matched

\* RawFile or ReleaseAsset g and Resource r are the same resource
C14_SameResource(g, r) ==
    /\ g.owner = r.owner
    /\ g.repo = r.repo
    /\ \/ g.kind = "RawFile" /\ r.kind = "File"
          /\ g.reference = r.reference /\ g.path = r.path
       \/ g.kind = "ReleaseAsset" /\ r.kind = "Release"
          /\ g.tag = r.tag /\ g.filename = r.name

\* C14: on an input of the raw-file or release-download shape GitHubUrl::parse
\* succeeds exactly when Resource::try_from does, with the same kind and
\* fields, and convert_url(p, u) is Resource::try_from(u).url(p) when that is
\* Some
C14_ParsersAgree ==
    (pc # "start" /\ lib_parsed # NoLibResult /\ C14_InScope(input)) =>
        /\ lib_parsed.ok <=> parsed.ok
        /\ parsed.ok => C14_SameResource(lib_parsed.val, parsed.val)
        /\ (pc = "rendered" /\ out.some /\ proxy.proxy = ConvertProxy)
                => converted = LibOk(out.url)

(***************************************************************************)
(* C13.  First match wins, without fall-through: an input of the raw or    *)
(* the blob shape gives a File or an error, never a Release; and when the  *)
(* reference/path split of such an input fails, try_from returns           *)
(* ParseError, not InvalidUrl and not the result of a later shape.         *)
(***************************************************************************)
\* http(s)://github.com/{owner}/{repo}/raw|blob/{rest}
C13_FileShape(v) ==
    LET parts == Split(v)
    IN  /\ C9_HeadOk(parts)
        /\ parts[6] \in {Str_raw, Str_blob}
        /\ C9_ToEnd(parts, 7)

\* The rest-path has no '/', or is refs/x/y/ with nothing behind
C13_SplitFails(v) ==
    LET parts == Split(v)
    IN  \/ Len(parts) = 7
        \/ /\ parts[7] = REFS
           /\ Len(parts) = 10
           /\ parts[10] = <<>>

ThreadUrls ==
    {HTTPS_GITHUB \o <<"o", "/", "r">> \o RAW_SEG \o <<"m", "/", "f">>,
     HTTPS_GITHUB \o <<"o", "/", "r">> \o BLOB_SEG \o <<"m">>,
     HTTPS_GITHUB \o <<"o", "/", "r">> \o REL_SEG \o <<"v", "/", "f">>,
     <<"f", "i", "l", "e", ".", "s", "h">>}

\* The proxies the threads render for
ThreadProxies == {"Xget", "Jsdelivr"}

\* OnceLock::get_or_init seen by a caller that finds the cell in state c: the
\* value is there, or the caller runs the initialiser, or it blocks while
\* another thread runs it.  The variant below hands the cell out while the
\* initialiser is still running.
get_or_init_no_wait(c) ==
    CASE c = "init" -> "use"
      [] c = "uninit" -> "run"
      [] c = "running" -> "use"

get_or_init(c) ==
    CASE c = "init" -> "use"
      [] c = "uninit" -> "run"
      [] c = "running" -> "wait"

\* The regex behind a cell
RegexOf(c, value) ==
    CASE c = "raw" -> raw_file_regex(value)
      [] c = "blob" -> blob_file_regex(value)
      [] c = "release" -> release_download_regex(value)

\* What captures() can return through a cell in state c: the compiled regex
\* decides once the cell is initialised; a cell read before that holds
\* nothing defined
Captures(c, state, value) ==
    IF state = "init" THEN {RegexOf(c, value)}
    ELSE {RegexOf(c, value), NoCaptures}

\* The body of the arm of try_from that matched
Arm(c, caps) ==
    IF c = "release"
    THEN Ok(Release(caps.owner, caps.repo, caps.tag, caps.filename))
    ELSE FileFromCaptures(caps)

\* A thread calls Resource::try_from(u): its first call, or the next one
\* after an earlier call has returned
Call(t) ==
    /\ th[t].pc \in {"idle", "returned", "done"}
    /\ \E u \in ThreadUrls :
         th' = [th EXCEPT ![t] = [IdleThread EXCEPT !.pc = "get_or_init", !.input = u]]
    /\ UNCHANGED <<cell, inits, uninit_seen>>
    /\ UNCHANGED <<pc, input, args, proxy_arg, parsed, resource, proxy, out>>
    /\ UNCHANGED lib_vars

\* RE.get_or_init finds the cell empty: the thread starts the initialiser
StartInit(t) ==
    /\ th[t].pc = "get_or_init"
    /\ get_or_init(cell[th[t].re]) = "run"
    /\ cell' = [cell EXCEPT ![th[t].re] = "running"]
    /\ th' = [th EXCEPT ![t].pc = "initialising"]
    /\ UNCHANGED <<inits, uninit_seen>>
    /\ UNCHANGED <<pc, input, args, proxy_arg, parsed, resource, proxy, out>>
    /\ UNCHANGED lib_vars

\* Regex::new(..).unwrap() has returned: the cell is set
FinishInit(t) ==
    /\ th[t].pc = "initialising"
    /\ cell' = [cell EXCEPT ![th[t].re] = "init"]
    /\ inits' = [inits EXCEPT ![th[t].re] = @ + 1]
    /\ th' = [th EXCEPT ![t].pc = "get_or_init"]
    /\ UNCHANGED uninit_seen
    /\ UNCHANGED <<pc, input, args, proxy_arg, parsed, resource, proxy, out>>
    /\ UNCHANGED lib_vars

\* get_or_init returns the regex; captures(value) and the arm of try_from
MatchStep(t) ==
    /\ th[t].pc = "get_or_init"
    /\ get_or_init(cell[th[t].re]) = "use"
    /\ LET c == th[t].re
           value == Trim(th[t].input)
       IN  \E caps \in Captures(c, cell[c], value) :
             th' = IF caps.matched
                   THEN [th EXCEPT ![t].pc = "returned", ![t].result = Arm(c, caps)]
                   ELSE IF c = "release"
                   THEN [th EXCEPT ![t].pc = "returned", ![t].result = InvalidUrl(value)]
                   ELSE [th EXCEPT ![t].re = IF c = "raw" THEN "blob" ELSE "release"]
    /\ uninit_seen' = (uninit_seen \/ cell[th[t].re] # "init")
    /\ UNCHANGED <<cell, inits>>
    /\ UNCHANGED <<pc, input, args, proxy_arg, parsed, resource, proxy, out>>
    /\ UNCHANGED lib_vars

\* The thread renders the Resource it parsed: resource.url(&proxy_type)
ThreadUrl(t) ==
    /\ th[t].pc = "returned"
    /\ th[t].result.ok
    /\ \E p \in ThreadProxies :
         th' = [th EXCEPT ![t].pc = "done", ![t].proxy = p,
                          ![t].out = url(th[t].result.val, p)]
    /\ UNCHANGED <<cell, inits, uninit_seen>>
    /\ UNCHANGED <<pc, input, args, proxy_arg, parsed, resource, proxy, out>>
    /\ UNCHANGED lib_vars

InitThreads ==
    /\ Blank
    /\ NoLib /\ NoThreads
    /\ input = <<>>
    /\ args = NoArgs
    /\ proxy_arg = <<>>

NextThreads ==
    \E t \in Threads :
        Call(t) \/ StartInit(t) \/ FinishInit(t) \/ MatchStep(t) \/ ThreadUrl(t)

SpecThreads == InitThreads /\ [][NextThreads]_vars

(***************************************************************************)
(* C12.  Calls from several threads are independent: each returns what it  *)
(* returns alone, and each OnceLock regex is initialised at most once and  *)
(* never used before it is initialised.                                    *)
(***************************************************************************)
\* Every finished call has the result of the same call made alone
C12_Independent ==
    \A t \in Threads :
        /\ th[t].pc \in {"returned", "done"} => th[t].result = try_from(th[t].input)
        /\ th[t].pc = "done" => th[t].out = url(try_from(th[t].input).val, th[t].proxy)

\* Each initialiser has run at most once, and no regex was used before its
\* cell was set
C12_InitOnce ==
    /\ ~uninit_seen
    /\ \A c \in Cells :
        /\ inits[c] <= 1
        /\ cell[c] = "init" <=> inits[c] = 1

\* C12 as stated: calls are independent, the regexes are initialised at most
\* once and never seen uninitialised, and no call reads or writes global
\* state (the statics keep the value they had at program start)
C12_AsStated ==
    /\ C12_Independent
    /\ C12_InitOnce
    /\ \A c \in Cells : cell[c] = "uninit"

\* C12 amended: calls are independent, and the only global state, the three
\* OnceLock cells, is initialised at most once and never used uninitialised
C12_IndependentCalls == C12_Independent /\ C12_InitOnce

\* Thread 1 has parsed and rendered a raw URL and thread 2 a release URL; all
\* three regexes have been initialised
C12_Witness ==
    /\ th[1].pc = "done" /\ th[1].result.val.kind = "File"
    /\ th[2].pc = "done" /\ th[2].result.val.kind = "Release"
    /\ \A c \in Cells : inits[c] = 1

====
